---- MODULE Spec2Model ----
(***************************************************************************)
(* A model of conda_build/cran.py: the continuation normalizer             *)
(* (remove_package_line_continuations), the record parser                  *)
(* (dict_from_cran_lines) and the conversion driver (main).                *)
(*                                                                         *)
(* Python strings are sequences of one-character strings.  An optional     *)
(* value (a str or None, an int or None) is a sequence of length 0 or 1:   *)
(* None == <<>>, Some(x) == <<x>>.                                         *)
(***************************************************************************)
EXTENDS Integers, Sequences, FiniteSets, TLC

VARIABLES
  \* ---- remove_package_line_continuations, one loop iteration per step
  block,                       \* the argument of the first call
  chunk,                       \* the list being walked (entries: str or None)
  i,                           \* enumerate's index, 0-based
  continued_ix,
  continued_line,
  had_continuation,
  accumulating_continuations,
  norm_error,                  \* "" or the exception that ended the call
  npc,                         \* "idle" | "loop" | "raised" | "done"
  result,                      \* the returned list
  first_result,                \* what the first call returned
  calls,                       \* 1: first call, 2: the call on its own output
  \* ---- main
  PACKAGES,                    \* r.text: the index as fetched
  packages,                    \* args.packages
  version,                     \* args.version given (a non-empty list)
  requested,                   \* args.packages as passed to main
  package_list,
  cran_metadata,
  package_dicts,
  pc,                          \* "fetch" | "index" | "loop" | "write" | "done" | "exit"
  exit_error,                  \* what ended the run: its kind and its package
  writing,                     \* the package whose recipe is being written
  wpc,                         \* "makedirs" | "meta.yaml" | "build.sh" | "bld.bat"
  written,                     \* the packages the writing loop is done with
  disk                         \* output_dir: directory name -> files in it

normvars == <<block, chunk, i, continued_ix, continued_line, had_continuation,
              accumulating_continuations, norm_error, npc, result,
              first_result, calls>>

mainvars == <<PACKAGES, packages, version, requested, package_list,
              cran_metadata, package_dicts, pc, exit_error, writing, wpc,
              written, disk>>

vars == <<normvars, mainvars>>

-----------------------------------------------------------------------------
(* Bounds of the model *)

MaxLines == 3
MaxRecords == 2
MaxPackages == 2

-----------------------------------------------------------------------------
(* Optional values and Python strings *)

None == <<>>
Some(x) == <<x>>

\* Python truthiness of a list entry that is a str or None
Truthy(c) == c # None /\ c[1] # <<>>

Whitespace == {" ", "\t", "\n", "\r"}

Spaces(n) == [k \in 1..n |-> " "]

\* str.startswith
StartsWith(s, p) == Len(s) >= Len(p) /\ SubSeq(s, 1, Len(p)) = p

\* str.lstrip(): drop every leading whitespace character
RECURSIVE LStrip(_)
LStrip(s) ==
  IF s = <<>> THEN <<>>
  ELSE IF Head(s) \in Whitespace THEN LStrip(Tail(s)) ELSE s

\* list indexing with a Python index (0-based, negative counts from the end)
PyPos(lst, ix) == IF ix < 0 THEN Len(lst) + ix + 1 ELSE ix + 1

\* str.find(sep), 1-based: the first position where sep occurs in s, 0 if none
Find(s, sep) ==
  LET Hit(p) == SubSeq(s, p, p + Len(sep) - 1) = sep
      last == Len(s) - Len(sep) + 1
  IN IF \E p \in 1..last : Hit(p)
     THEN CHOOSE p \in 1..last : Hit(p) /\ \A q \in 1..(p - 1) : ~Hit(q)
     ELSE 0

\* str.split(sep): cut at every occurrence of sep
RECURSIVE Split(_, _)
Split(s, sep) ==
  LET p == Find(s, sep)
  IN IF p = 0 THEN <<s>>
     ELSE <<SubSeq(s, 1, p - 1)>> \o Split(SubSeq(s, p + Len(sep), Len(s)), sep)

LineBreaks == {"\n", "\r"}

\* the first position of a line break in s, 0 if none
FirstBreak(s) ==
  IF \E p \in 1..Len(s) : s[p] \in LineBreaks
  THEN CHOOSE p \in 1..Len(s) :
         s[p] \in LineBreaks /\ \A q \in 1..(p - 1) : s[q] \notin LineBreaks
  ELSE 0

\* str.splitlines(): cut at "\n", "\r" and "\r\n"; no empty last line
RECURSIVE SplitLines(_)
SplitLines(s) ==
  IF s = <<>> THEN <<>>
  ELSE LET p == FirstBreak(s)
           w == IF s[p] = "\r" /\ p < Len(s) /\ s[p + 1] = "\n" THEN 2 ELSE 1
       IN IF p = 0 THEN <<s>>
          ELSE <<SubSeq(s, 1, p - 1)>> \o SplitLines(SubSeq(s, p + w, Len(s)))

RECURSIVE RStrip(_)
RStrip(s) ==
  IF s = <<>> THEN <<>>
  ELSE IF s[Len(s)] \in Whitespace THEN RStrip(SubSeq(s, 1, Len(s) - 1)) ELSE s

\* str.strip()
Strip(s) == RStrip(LStrip(s))

\* sep.join(lst)
RECURSIVE Join(_, _)
Join(lst, sep) ==
  IF lst = <<>> THEN <<>>
  ELSE IF Len(lst) = 1 THEN lst[1]
       ELSE lst[1] \o sep \o Join(Tail(lst), sep)

\* str.replace(old, new) for one-character old and new
Replace(s, old, new) == [k \in 1..Len(s) |-> IF s[k] = old THEN new ELSE s[k]]

UpperLetters == <<"A", "B", "C", "D", "E", "F", "G", "H", "I", "J", "K", "L", "M", "N", "O", "P", "Q", "R", "S", "T", "U", "V", "W", "X", "Y", "Z">>
LowerLetters == <<"a", "b", "c", "d", "e", "f", "g", "h", "i", "j", "k", "l", "m", "n", "o", "p", "q", "r", "s", "t", "u", "v", "w", "x", "y", "z">>
Digits == <<"0", "1", "2", "3", "4", "5", "6", "7", "8", "9">>

Letters == {UpperLetters[k] : k \in 1..26} \cup {LowerLetters[k] : k \in 1..26}
DigitSet == {Digits[k] : k \in 1..10}

LowerChar(c) ==
  IF \E k \in 1..26 : UpperLetters[k] = c
  THEN LowerLetters[CHOOSE k \in 1..26 : UpperLetters[k] = c]
  ELSE c

\* str.lower()
Lower(s) == [k \in 1..Len(s) |-> LowerChar(s[k])]

\* the code point of a character a dependency name can hold
Ord(c) ==
  IF \E k \in 1..26 : UpperLetters[k] = c
  THEN 64 + (CHOOSE k \in 1..26 : UpperLetters[k] = c)
  ELSE IF \E k \in 1..26 : LowerLetters[k] = c
  THEN 96 + (CHOOSE k \in 1..26 : LowerLetters[k] = c)
  ELSE IF \E k \in 1..10 : Digits[k] = c
  THEN 47 + (CHOOSE k \in 1..10 : Digits[k] = c)
  ELSE IF c = "+" THEN 43
  ELSE IF c = "-" THEN 45
  ELSE IF c = "." THEN 46
  ELSE IF c = "_" THEN 95
  ELSE 32

\* s < t for Python strings: by code point, a proper prefix first
RECURSIVE StrLess(_, _)
StrLess(s, t) ==
  IF t = <<>> THEN FALSE
  ELSE IF s = <<>> THEN TRUE
  ELSE IF Head(s) = Head(t) THEN StrLess(Tail(s), Tail(t))
  ELSE Ord(Head(s)) < Ord(Head(t))

-----------------------------------------------------------------------------
(* remove_package_line_continuations *)

ContinuationWidth == 8
continuation == Spaces(ContinuationWidth)

IsContinuation(line) == StartsWith(line, continuation)

\* the locals at function entry
NormEntry(c) ==
  [chunk |-> c,
   continued_ix |-> None,
   continued_line |-> None,
   had_continuation |-> FALSE,
   accumulating_continuations |-> FALSE,
   error |-> ""]

Raise(s, e) == [s EXCEPT !.error = e]

\* ChainBranch without "chunk[i] = None": the chained line stays in the list
ChainBranchKeepsLine(s, k, line) ==
  IF ~s.had_continuation THEN Raise(s, "AssertionError")
  ELSE IF s.continued_line = None THEN Raise(s, "TypeError")
  ELSE [s EXCEPT !.continued_line = Some(@[1] \o line)]

\* a continuation line while already accumulating
ChainBranch(s, k, line) ==
  IF ~s.had_continuation THEN Raise(s, "AssertionError")
  ELSE IF s.continued_line = None THEN Raise(s, "TypeError")
  ELSE [s EXCEPT !.continued_line = Some(@[1] \o line),
                 !.chunk[k + 1] = None]

\* StartBranch without "had_continuation = True"
StartBranchNoFlag(s, k, line) ==
  LET prev == s.chunk[PyPos(s.chunk, k - 1)]
  IN IF prev = None THEN Raise(s, "TypeError")
     ELSE [s EXCEPT !.accumulating_continuations = TRUE,
                    !.continued_ix = Some(k - 1),
                    !.continued_line = Some(prev[1] \o line),
                    !.chunk[k + 1] = None]

\* the first continuation line after a non-continuation line
StartBranch(s, k, line) ==
  LET prev == s.chunk[PyPos(s.chunk, k - 1)]
  IN IF prev = None THEN Raise(s, "TypeError")
     ELSE [s EXCEPT !.accumulating_continuations = TRUE,
                    !.continued_ix = Some(k - 1),
                    !.continued_line = Some(prev[1] \o line),
                    !.had_continuation = TRUE,
                    !.chunk[k + 1] = None]

\* a non-continuation line
FlushBranch(s) ==
  IF s.accumulating_continuations
  THEN IF ~s.had_continuation THEN Raise(s, "AssertionError")
       ELSE IF s.continued_ix = None THEN Raise(s, "TypeError")
       ELSE [s EXCEPT !.chunk[PyPos(s.chunk, s.continued_ix[1])] = s.continued_line,
                      !.accumulating_continuations = FALSE,
                      !.continued_line = None,
                      !.continued_ix = None]
  ELSE s

\* one iteration of "for (i, line) in enumerate(chunk)"
LoopBody(s, k) ==
  LET cur == s.chunk[k + 1]
  IN IF cur = None THEN Raise(s, "AttributeError")
     ELSE IF IsContinuation(cur[1])
          THEN LET line == <<" ">> \o LStrip(cur[1])
               IN IF s.accumulating_continuations
                  THEN ChainBranch(s, k, line)
                  ELSE StartBranch(s, k, line)
          ELSE FlushBranch(s)

\* the list comprehension "[c for c in chunk if c]"
RECURSIVE KeepTruthy(_)
KeepTruthy(lst) ==
  IF lst = <<>> THEN <<>>
  ELSE IF Truthy(Head(lst)) THEN <<Head(lst)>> \o KeepTruthy(Tail(lst))
       ELSE KeepTruthy(Tail(lst))

\* what follows the loop: drop the removed entries, append the sentinel
Returned(s) ==
  Append(IF s.had_continuation THEN KeepTruthy(s.chunk) ELSE s.chunk,
         Some(<<>>))

\* the whole call, as main uses it
RECURSIVE LoopFrom(_, _)
LoopFrom(s, k) ==
  IF s.error # "" \/ k >= Len(s.chunk) THEN s
  ELSE LoopFrom(LoopBody(s, k), k + 1)

remove_package_line_continuations(c) ==
  LET s == LoopFrom(NormEntry(c), 0)
  IN [error |-> s.error,
      lines |-> IF s.error = "" THEN Returned(s) ELSE <<>>]

-----------------------------------------------------------------------------
(* dict_from_cran_lines *)

CRAN_KEYS ==
  {<<"S", "i", "t", "e">>,
   <<"A", "r", "c", "h", "s">>,
   <<"D", "e", "p", "e", "n", "d", "s">>,
   <<"E", "n", "h", "a", "n", "c", "e", "s">>,
   <<"I", "m", "p", "o", "r", "t", "s">>,
   <<"L", "i", "c", "e", "n", "s", "e">>,
   <<"L", "i", "c", "e", "n", "s", "e", "_", "i", "s", "_", "F", "O", "S", "S">>,
   <<"L", "i", "c", "e", "n", "s", "e", "_", "r", "e", "s", "t", "r", "i", "c", "t", "s", "_", "u", "s", "e">>,
   <<"L", "i", "n", "k", "i", "n", "g", "T", "o">>,
   <<"M", "D", "5", "s", "u", "m">>,
   <<"N", "e", "e", "d", "s", "C", "o", "m", "p", "i", "l", "a", "t", "i", "o", "n">>,
   <<"O", "S", "_", "t", "y", "p", "e">>,
   <<"P", "a", "c", "k", "a", "g", "e">>,
   <<"P", "a", "t", "h">>,
   <<"P", "r", "i", "o", "r", "i", "t", "y">>,
   <<"S", "u", "g", "g", "e", "s", "t", "s">>,
   <<"V", "e", "r", "s", "i", "o", "n">>,
   <<"T", "i", "t", "l", "e">>,
   <<"A", "u", "t", "h", "o", "r">>,
   <<"M", "a", "i", "n", "t", "a", "i", "n", "e", "r">>}

KeyValueSep == <<":", " ">>

\* a Python dict: a function on the set of its keys
EmptyDict == [x \in {} |-> <<>>]
DictSet(d, key, v) ==
  [x \in DOMAIN d \cup {key} |-> IF x = key THEN v ELSE d[x]]
DictGet(d, key, default) == IF key \in DOMAIN d THEN d[key] ELSE default

\* "(k, v) = line.split(': ')" unpacks exactly two parts
Unpacks(parts) == Len(parts) = 2

\* the loop over the lines: the fields, the unknown keys warned about, and
\* the ValueError of a line that does not unpack into (k, v)
RECURSIVE DictLoop(_, _, _)
DictLoop(lines, k, acc) ==
  IF k > Len(lines) \/ acc.error # "" THEN acc
  ELSE IF ~Truthy(lines[k]) THEN DictLoop(lines, k + 1, acc)
  ELSE LET parts == Split(lines[k][1], KeyValueSep)
       IN IF ~Unpacks(parts)
          THEN [acc EXCEPT !.error = "ValueError"]
          ELSE DictLoop(lines, k + 1,
                 [acc EXCEPT
                    !.fields = DictSet(@, parts[1], parts[2]),
                    !.warned = IF parts[1] \in CRAN_KEYS
                               THEN @ ELSE @ \cup {parts[1]}])

dict_from_cran_lines(lines) ==
  LET r == DictLoop(lines, 1, [error |-> "", fields |-> EmptyDict, warned |-> {}])
  IN [error |-> r.error,
      fields |-> r.fields,
      warned |-> r.warned,
      orig_lines |-> lines]

-----------------------------------------------------------------------------
(* VERSION_DEPENDENCY_REGEX *)

R_BASE_PACKAGE_NAMES ==
  {<<"b", "a", "s", "e">>,
   <<"t", "o", "o", "l", "s">>,
   <<"u", "t", "i", "l", "s">>,
   <<"g", "r", "D", "e", "v", "i", "c", "e", "s">>,
   <<"g", "r", "a", "p", "h", "i", "c", "s">>,
   <<"s", "t", "a", "t", "s">>,
   <<"d", "a", "t", "a", "s", "e", "t", "s">>,
   <<"m", "e", "t", "h", "o", "d", "s">>,
   <<"g", "r", "i", "d">>,
   <<"s", "p", "l", "i", "n", "e", "s">>,
   <<"s", "t", "a", "t", "s", "4">>,
   <<"t", "c", "l", "t", "k">>,
   <<"c", "o", "m", "p", "i", "l", "e", "r">>,
   <<"p", "a", "r", "a", "l", "l", "e", "l">>}

NameChars == Letters \cup DigitSet \cup {".", "+", "-"}
RelopChars == {">", "=", "<"}
VersionChars == Letters \cup DigitSet \cup {":", "-", "+", "~", "."}
ArchsChars == Whitespace \cup Letters \cup DigitSet \cup {"!", "_", "-"}

\* the first position at or after p whose character is not in class
RECURSIVE SkipWhile(_, _, _)
SkipWhile(s, p, class) ==
  IF p <= Len(s) /\ s[p] \in class THEN SkipWhile(s, p + 1, class) ELSE p

At(s, p, c) == p <= Len(s) /\ s[p] = c

\* "(\s*\(\s*(?P<relop>[>=<]+)\s*(?P<version>[0-9a-zA-Z:\-+~.]+)\s*\))?" at
\* position p: whether the group took part, its captures, and where the
\* match goes on
VersionGroup(s, p) ==
  LET v0 == SkipWhile(s, p, Whitespace)
      v1 == SkipWhile(s, v0 + 1, Whitespace)
      v2 == SkipWhile(s, v1, RelopChars)
      v3 == SkipWhile(s, v2, Whitespace)
      v4 == SkipWhile(s, v3, VersionChars)
      v5 == SkipWhile(s, v4, Whitespace)
  IN IF At(s, v0, "(") /\ v2 > v1 /\ v4 > v3 /\ At(s, v5, ")")
     THEN [relop |-> Some(SubSeq(s, v1, v2 - 1)),
           version |-> Some(SubSeq(s, v3, v4 - 1)),
           end |-> v5 + 1]
     ELSE [relop |-> None, version |-> None, end |-> p]

\* "(\s*\[(?P<archs>[\s!\w\-]+)\])?" at position p
ArchsGroup(s, p) ==
  LET a0 == SkipWhile(s, p, Whitespace)
      a1 == SkipWhile(s, a0 + 1, ArchsChars)
  IN IF At(s, a0, "[") /\ a1 > a0 + 1 /\ At(s, a1, "]")
     THEN [archs |-> Some(SubSeq(s, a0 + 1, a1 - 1)), end |-> a1 + 1]
     ELSE [archs |-> None, end |-> p]

\* "^\s*(?P<name>[a-zA-Z0-9.+\-]{1,})" : where the name starts and ends
NameStart(s) == SkipWhile(s, 1, Whitespace)
NameEnd(s) == SkipWhile(s, NameStart(s), NameChars)

\* VERSION_DEPENDENCY_REGEX.match(s): None, or the named groups (a group
\* that took no part in the match is None).  Every repetition of the regex
\* is followed by a character outside its class, so the longest run is the
\* only match.
MatchDependency(s) ==
  LET vg == VersionGroup(s, NameEnd(s))
      ag == ArchsGroup(s, vg.end)
  IN IF NameEnd(s) > NameStart(s)
          /\ SkipWhile(s, ag.end, Whitespace) = Len(s) + 1
     THEN Some([name |-> SubSeq(s, NameStart(s), NameEnd(s) - 1),
                relop |-> vg.relop,
                version |-> vg.version,
                archs |-> ag.archs])
     ELSE None

-----------------------------------------------------------------------------
(* The normalizer as a state machine: one loop iteration per step, then a   *)
(* second call on the list the first call returned.                         *)

Indents == {0, 7, 8, 9}
Bodies == {<<>>, <<"a">>, <<"b">>}
LineSet == {Spaces(n) \o b : n \in Indents, b \in Bodies}
Blocks == UNION {[1..n -> LineSet] : n \in 0..MaxLines}

Locals ==
  [chunk |-> chunk,
   continued_ix |-> continued_ix,
   continued_line |-> continued_line,
   had_continuation |-> had_continuation,
   accumulating_continuations |-> accumulating_continuations,
   error |-> norm_error]

SetLocals(s) ==
  /\ chunk' = s.chunk
  /\ continued_ix' = s.continued_ix
  /\ continued_line' = s.continued_line
  /\ had_continuation' = s.had_continuation
  /\ accumulating_continuations' = s.accumulating_continuations
  /\ norm_error' = s.error

InLoop == npc = "loop" /\ norm_error = "" /\ i < Len(chunk)

AtContinuation == chunk[i + 1] # None /\ IsContinuation(chunk[i + 1][1])

Iterate ==
  /\ SetLocals(LoopBody(Locals, i))
  /\ i' = i + 1
  /\ npc' = IF LoopBody(Locals, i).error = "" THEN "loop" ELSE "raised"
  /\ UNCHANGED <<block, result, first_result, calls, mainvars>>

MainIdle ==
  /\ PACKAGES = <<>>
  /\ packages = <<>>
  /\ version = FALSE
  /\ requested = <<>>
  /\ package_list = <<>>
  /\ cran_metadata = EmptyDict
  /\ package_dicts = EmptyDict
  /\ pc = "idle"
  /\ exit_error = [kind |-> "", package |-> None]
  /\ writing = None
  /\ wpc = "makedirs"
  /\ written = {}
  /\ disk = EmptyDict

InitNorm ==
  /\ block \in Blocks
  /\ chunk = [k \in 1..Len(block) |-> Some(block[k])]
  /\ i = 0
  /\ continued_ix = None
  /\ continued_line = None
  /\ had_continuation = FALSE
  /\ accumulating_continuations = FALSE
  /\ norm_error = ""
  /\ npc = "loop"
  /\ result = <<>>
  /\ first_result = <<>>
  /\ calls = 1
  /\ MainIdle

StartContinuation ==
  InLoop /\ AtContinuation /\ ~accumulating_continuations /\ Iterate

ChainContinuation ==
  InLoop /\ AtContinuation /\ accumulating_continuations /\ Iterate

FlushContinuation ==
  InLoop /\ ~AtContinuation /\ accumulating_continuations /\ Iterate

PlainLine ==
  InLoop /\ ~AtContinuation /\ ~accumulating_continuations /\ Iterate

Return ==
  /\ npc = "loop" /\ norm_error = "" /\ i = Len(chunk)
  /\ result' = Returned(Locals)
  /\ first_result' = IF calls = 1 THEN Returned(Locals) ELSE first_result
  /\ npc' = "done"
  /\ UNCHANGED <<block, chunk, i, continued_ix, continued_line,
                 had_continuation, accumulating_continuations, norm_error,
                 calls, mainvars>>

CallAgain ==
  /\ npc = "done" /\ calls = 1
  /\ SetLocals(NormEntry(result))
  /\ i' = 0
  /\ npc' = "loop"
  /\ calls' = 2
  /\ UNCHANGED <<block, result, first_result, mainvars>>

NextNorm ==
  \/ StartContinuation
  \/ ChainContinuation
  \/ FlushContinuation
  \/ PlainLine
  \/ Return
  \/ CallAgain

SpecNorm == InitNorm /\ [][NextNorm]_vars

-----------------------------------------------------------------------------
(* main: the index *)

PackageKey == <<"P", "a", "c", "k", "a", "g", "e">>
VersionKey == <<"V", "e", "r", "s", "i", "o", "n">>
DependsKey == <<"D", "e", "p", "e", "n", "d", "s">>
ImportsKey == <<"I", "m", "p", "o", "r", "t", "s">>
LinkingToKey == <<"L", "i", "n", "k", "i", "n", "g", "T", "o">>
LicenseKey == <<"L", "i", "c", "e", "n", "s", "e">>
LicenseIsFossKey == <<"L", "i", "c", "e", "n", "s", "e", "_", "i", "s", "_", "F", "O", "S", "S">>
LicenseRestrictsUseKey == <<"L", "i", "c", "e", "n", "s", "e", "_", "r", "e", "s", "t", "r", "i", "c", "t", "s", "_", "u", "s", "e">>
SuggestsKey == <<"S", "u", "g", "g", "e", "s", "t", "s">>

BlockSep == <<"\n", "\n">>

\* "[remove_package_line_continuations(i.splitlines())
\*   for i in PACKAGES.split('\n\n')]"
NormalizedBlock(text) ==
  LET ls == SplitLines(text)
  IN remove_package_line_continuations([k \in 1..Len(ls) |-> Some(ls[k])])

PackageList(text) ==
  LET bs == Split(text, BlockSep)
  IN [k \in 1..Len(bs) |-> NormalizedBlock(bs[k])]

\* "{d['Package'].lower(): d for d in map(dict_from_cran_lines, package_list)}"
\* a later record of the same name replaces an earlier one
RECURSIVE MetadataLoop(_, _, _)
MetadataLoop(pl, k, acc) ==
  IF k > Len(pl) \/ acc.error # "" THEN acc
  ELSE LET d == dict_from_cran_lines(pl[k])
       IN IF d.error # "" THEN [acc EXCEPT !.error = d.error]
          ELSE IF PackageKey \notin DOMAIN d.fields
               THEN [acc EXCEPT !.error = "KeyError"]
               ELSE MetadataLoop(pl, k + 1,
                      [acc EXCEPT
                         !.metadata = DictSet(@, Lower(d.fields[PackageKey]), d)])

CranMetadata(pl) == MetadataLoop(pl, 1, [error |-> "", metadata |-> EmptyDict])

-----------------------------------------------------------------------------
(* main: one requested package *)

DefaultFields(package) ==
  [cran_packagename |-> package,
   packagename |-> <<"r", "-">> \o Lower(package),
   depends |-> <<>>,
   home_comment |-> <<"#">>,
   homeurl |-> <<>>,
   summary_comment |-> <<"#">>,
   summary |-> <<>>]

\* "[s.strip() for s in cran_package.get(key, '').split(',') if s.strip()]"
RECURSIVE StrippedNonEmpty(_)
StrippedNonEmpty(parts) ==
  IF parts = <<>> THEN <<>>
  ELSE IF Strip(Head(parts)) # <<>>
       THEN <<Strip(Head(parts))>> \o StrippedNonEmpty(Tail(parts))
       ELSE StrippedNonEmpty(Tail(parts))

TokenList(cran_package, key) ==
  StrippedNonEmpty(Split(DictGet(cran_package.fields, key, <<>>), <<",">>))

Range(seq) == {seq[k] : k \in 1..Len(seq)}

\* "set(chain(depends, imports, links))"
TokenSet(cran_package) ==
  Range(TokenList(cran_package, DependsKey))
    \cup Range(TokenList(cran_package, ImportsKey))
    \cup Range(TokenList(cran_package, LinkingToKey))

\* the orders in which a set can be iterated
Orders(S) ==
  {f \in [1..Cardinality(S) -> S] :
     \A a, b \in 1..Cardinality(S) : a # b => f[a] # f[b]}

OrEmpty(group) == IF group = None THEN <<>> ELSE group[1]

\* TokenError without "if archs: sys.exit(...)"
TokenErrorIgnoresArchs(match) ==
  IF match = None THEN "CouldNotParse"
  ELSE IF OrEmpty(match[1].relop) # <<>> /\ OrEmpty(match[1].version) = <<>>
       THEN "AssertionError"
       ELSE ""

\* what one token does to the run: "" or the error that ends it
TokenError(match) ==
  IF match = None THEN "CouldNotParse"
  ELSE IF OrEmpty(match[1].relop) # <<>> /\ OrEmpty(match[1].version) = <<>>
       THEN "AssertionError"
       ELSE IF match[1].archs # None /\ match[1].archs[1] # <<>>
            THEN "ArchsNotHandled"
            ELSE ""

\* "for s in set(...)": the loop over the tokens in the order the set yields
RECURSIVE DepDictLoop(_, _, _)
DepDictLoop(order, k, acc) ==
  IF k > Len(order) \/ acc.error # "" THEN acc
  ELSE LET match == MatchDependency(order[k])
       IN IF TokenError(match) # ""
          THEN [acc EXCEPT !.error = TokenError(match)]
          ELSE DepDictLoop(order, k + 1,
                 [acc EXCEPT
                    !.dep_dict = DictSet(@, match[1].name,
                                   OrEmpty(match[1].relop)
                                     \o OrEmpty(match[1].version))])

\* "sorted(dep_dict)": the names in ascending order
RECURSIVE Sorted(_)
Sorted(S) ==
  IF S = {} THEN <<>>
  ELSE LET least == CHOOSE x \in S : \A y \in S \ {x} : StrLess(x, y)
       IN <<least>> \o Sorted(S \ {least})

HostName == <<"R">>
ItemPrefix == <<" ", " ", " ", " ", "-", " ">>

\* DepsLoop with "deps.append" for R too: R stays where the sort puts it
RECURSIVE DepsLoopHostInOrder(_, _, _, _)
DepsLoopHostInOrder(names, k, dep_dict, deps) ==
  IF k > Len(names) THEN deps
  ELSE IF names[k] \in R_BASE_PACKAGE_NAMES
       THEN DepsLoopHostInOrder(names, k + 1, dep_dict, deps)
       ELSE IF names[k] = HostName
            THEN DepsLoopHostInOrder(names, k + 1, dep_dict,
                   Append(deps, ItemPrefix \o <<"r", " ">> \o dep_dict[names[k]]))
            ELSE DepsLoopHostInOrder(names, k + 1, dep_dict,
                   Append(deps, ItemPrefix \o <<"r", "-">> \o Lower(names[k])
                                  \o <<" ">> \o dep_dict[names[k]]))

\* "for name in sorted(dep_dict)": the lines of the dependency block
RECURSIVE DepsLoop(_, _, _, _)
DepsLoop(names, k, dep_dict, deps) ==
  IF k > Len(names) THEN deps
  ELSE IF names[k] \in R_BASE_PACKAGE_NAMES
       THEN DepsLoop(names, k + 1, dep_dict, deps)
       ELSE IF names[k] = HostName
            THEN DepsLoop(names, k + 1, dep_dict,
                   <<ItemPrefix \o <<"r", " ">> \o dep_dict[names[k]]>> \o deps)
            ELSE DepsLoop(names, k + 1, dep_dict,
                   Append(deps, ItemPrefix \o <<"r", "-">> \o Lower(names[k])
                                  \o <<" ">> \o dep_dict[names[k]]))

DependsBlock(dep_dict) ==
  Join(DepsLoop(Sorted(DOMAIN dep_dict), 1, dep_dict, <<>>), <<"\n">>)

\* "'\n'.join(['# %s' % l for l in cran_package['orig_lines'] if l])"
CommentedLines(lines) ==
  LET kept == KeepTruthy(lines)
  IN Join([k \in 1..Len(kept) |-> <<"#", " ">> \o kept[k][1]], <<"\n">>)

LicenseText(cran_package) ==
  DictGet(cran_package.fields, LicenseKey, <<"N", "o", "n", "e">>)
    \o (IF LicenseIsFossKey \in DOMAIN cran_package.fields
        THEN <<" ", "(", "F", "O", "S", "S", ")">> ELSE <<>>)
    \o (IF DictGet(cran_package.fields, LicenseRestrictsUseKey, <<>>) = <<"y", "e", "s">>
        THEN <<" ", "(", "R", "e", "s", "t", "r", "i", "c", "t", "s", " ", "u", "s", "e", ")">> ELSE <<>>)

SuggestsText(cran_package) ==
  IF SuggestsKey \in DOMAIN cran_package.fields
  THEN <<"#", " ", "S", "u", "g", "g", "e", "s", "t", "s", ":", " ">> \o cran_package.fields[SuggestsKey]
  ELSE <<>>

\* the fields set before the dependencies are looked at
VersionFields(d, cran_package, cran_url) ==
  LET cran_version == cran_package.fields[VersionKey]
      filename == d.cran_packagename \o <<"_">> \o cran_version \o <<".", "t", "a", "r", ".", "b", "z", "2">>
  IN [cran_version |-> cran_version,
      conda_version |-> Replace(cran_version, "-", "_"),
      filename |-> filename,
      cranurl |-> cran_url \o filename,
      cran_metadata |-> CommentedLines(cran_package.orig_lines),
      license |-> LicenseText(cran_package),
      suggests |-> SuggestsText(cran_package)] @@ d

\* one iteration of "while args.packages" for package, the token set yielding
\* its members in the given order: the error that ends the run ("" if none)
\* and package's entry of package_dicts when the iteration ends
Resolve(package, metadata, dicts, version_given, cran_url, order) ==
  LET cran_package == metadata[Lower(package)]
      d == IF package \in DOMAIN dicts THEN dicts[package]
           ELSE DefaultFields(package)
      d1 == VersionFields(d, cran_package, cran_url)
      deps == DepDictLoop(order, 1, [error |-> "", dep_dict |-> EmptyDict])
  IN IF version_given THEN [error |-> "NotImplementedError", d |-> d]
     ELSE IF VersionKey \notin DOMAIN cran_package.fields
          THEN [error |-> "KeyError", d |-> d]
          ELSE IF deps.error # "" THEN [error |-> deps.error, d |-> d1]
               ELSE [error |-> "",
                     d |-> [d1 EXCEPT !.depends = DependsBlock(deps.dep_dict)]]

-----------------------------------------------------------------------------
(* main: the inputs of the model *)

Line(key, value) == key \o KeyValueSep \o value

Record(lines) == Join(lines, <<"\n">>)

\* a package with a folded Imports field, a base package and the host runtime
RecordA ==
  Record(<<Line(PackageKey, <<"A">>), Line(VersionKey, <<"1", "-", "0">>),
           Line(DependsKey, <<"R", " ", "(", ">", "=", " ", "2", ")", ",", " ", "b", ",", " ", "m", "e", "t", "h", "o", "d", "s">>),
           Line(ImportsKey, <<"B", " ", "(", ">", "=", " ", "1", ")", ",">>), <<" ", " ", " ", " ", " ", " ", " ", " ", "b">>,
           Line(LicenseKey, <<"G", "P", "L">>)>>)

\* one name under two constraints
RecordB ==
  Record(<<Line(PackageKey, <<"b">>), Line(VersionKey, <<"2">>),
           Line(DependsKey, <<"R", " ", "(", ">", "=", " ", "2", ")">>), Line(LinkingToKey, <<"R", " ", "(", ">", "=", " ", "3", ")">>)>>)

\* an architecture qualifier
RecordC ==
  Record(<<Line(PackageKey, <<"c">>), Line(VersionKey, <<"1">>),
           Line(DependsKey, <<"x", " ", "[", "i", "3", "8", "6", "]">>)>>)

\* a token outside the grammar
RecordD ==
  Record(<<Line(PackageKey, <<"d">>), Line(VersionKey, <<"1">>),
           Line(ImportsKey, <<"x", " ", "y">>)>>)

\* a value with ": " in it
RecordE ==
  Record(<<Line(PackageKey, <<"e">>), Line(VersionKey, <<"1">>),
           Line(<<"T", "i", "t", "l", "e">>, <<"a", ":", " ", "b">>)>>)

\* a line without ": "
RecordF ==
  Record(<<Line(PackageKey, <<"f">>), <<"V", "e", "r", "s", "i", "o", "n">>>>)

Catalogue == <<RecordA, RecordB, RecordC, RecordD, RecordE, RecordF>>

RECURSIVE Ascending(_)
Ascending(S) ==
  IF S = {} THEN <<>>
  ELSE LET least == CHOOSE x \in S : \A y \in S : x <= y
       IN <<least>> \o Ascending(S \ {least})

Selections ==
  {Ascending(S) : S \in {T \in SUBSET (1..Len(Catalogue)) :
                           Cardinality(T) <= MaxRecords}}

Trailers == {<<>>, <<"\n">>, BlockSep}

IndexTexts ==
  {Join([k \in 1..Len(sel) |-> Catalogue[sel[k]]], BlockSep) \o t :
     sel \in Selections, t \in Trailers}

\* a name is unknown when its record is not in the index text
RequestNames == {<<"A">>, <<"a">>, <<"b">>, <<"c">>, <<"d">>}

Requests == UNION {[1..n -> RequestNames] : n \in 0..MaxPackages}

\* args.cran_url
cran_url == <<"u", "/">>

-----------------------------------------------------------------------------
(* main as a state machine *)

NoError == [kind |-> "", package |-> None]

NormIdle ==
  /\ block = <<>>
  /\ chunk = <<>>
  /\ i = 0
  /\ continued_ix = None
  /\ continued_line = None
  /\ had_continuation = FALSE
  /\ accumulating_continuations = FALSE
  /\ norm_error = ""
  /\ npc = "idle"
  /\ result = <<>>
  /\ first_result = <<>>
  /\ calls = 0

Init ==
  /\ PACKAGES \in IndexTexts
  /\ packages \in Requests
  /\ version \in BOOLEAN
  /\ requested = packages
  /\ package_list = <<>>
  /\ cran_metadata = EmptyDict
  /\ package_dicts = EmptyDict
  /\ pc = "fetch"
  /\ exit_error = NoError
  /\ writing = None
  /\ wpc = "makedirs"
  /\ written = {}
  /\ disk = EmptyDict
  /\ NormIdle

Exit(kind, package) ==
  /\ pc' = "exit"
  /\ exit_error' = [kind |-> kind, package |-> package]

\* lines 268-270
FetchIndex ==
  /\ pc = "fetch"
  /\ LET pl == PackageList(PACKAGES)
     IN IF \E k \in 1..Len(pl) : pl[k].error # ""
        THEN /\ Exit(pl[CHOOSE k \in 1..Len(pl) : pl[k].error # ""].error, None)
             /\ UNCHANGED package_list
        ELSE /\ package_list' = [k \in 1..Len(pl) |-> pl[k].lines]
             /\ pc' = "index"
             /\ UNCHANGED exit_error
  /\ UNCHANGED <<PACKAGES, packages, version, requested, cran_metadata,
                 package_dicts, writing, wpc, written, disk, normvars>>

\* lines 272-273
BuildIndex ==
  /\ pc = "index"
  /\ CranMetadata(package_list).error = ""
  /\ cran_metadata' = CranMetadata(package_list).metadata
  /\ pc' = "loop"
  /\ UNCHANGED <<PACKAGES, packages, version, requested, package_list,
                 package_dicts, exit_error, writing, wpc, written, disk,
                 normvars>>

BuildIndexRaises ==
  /\ pc = "index"
  /\ CranMetadata(package_list).error # ""
  /\ Exit(CranMetadata(package_list).error, None)
  /\ UNCHANGED <<PACKAGES, packages, version, requested, package_list,
                 cran_metadata, package_dicts, writing, wpc, written, disk,
                 normvars>>

\* the loop left after its first package ("if" for "while")
LoopFinishedAfterOne == packages = <<>> \/ DOMAIN package_dicts # {}

\* "while args.packages" is over
LoopFinished == packages = <<>>

\* "package = args.packages.pop()"
Popped == packages[Len(packages)]
AfterPop == SubSeq(packages, 1, Len(packages) - 1)

InPackageLoop == pc = "loop" /\ ~LoopFinished

\* lines 280-281
PackageNotFound ==
  /\ InPackageLoop
  /\ Lower(Popped) \notin DOMAIN cran_metadata
  /\ packages' = AfterPop
  /\ Exit("PackageNotFound", Some(Popped))
  /\ UNCHANGED <<PACKAGES, version, requested, package_list, cran_metadata,
                 package_dicts, writing, wpc, written, disk, normvars>>

\* lines 283-351, ended by NotImplementedError, KeyError or sys.exit
PackageFails ==
  /\ InPackageLoop
  /\ Lower(Popped) \in DOMAIN cran_metadata
  /\ \E order \in Orders(TokenSet(cran_metadata[Lower(Popped)])) :
       LET r == Resolve(Popped, cran_metadata, package_dicts, version,
                        cran_url, order)
       IN /\ r.error # ""
          /\ package_dicts' = DictSet(package_dicts, Popped, r.d)
          /\ Exit(r.error, Some(Popped))
  /\ packages' = AfterPop
  /\ UNCHANGED <<PACKAGES, version, requested, package_list, cran_metadata,
                 writing, wpc, written, disk, normvars>>

\* lines 283-364
PackageResolved ==
  /\ InPackageLoop
  /\ Lower(Popped) \in DOMAIN cran_metadata
  /\ \E order \in Orders(TokenSet(cran_metadata[Lower(Popped)])) :
       LET r == Resolve(Popped, cran_metadata, package_dicts, version,
                        cran_url, order)
       IN /\ r.error = ""
          /\ package_dicts' = DictSet(package_dicts, Popped, r.d)
  /\ packages' = AfterPop
  /\ UNCHANGED <<PACKAGES, version, requested, package_list, cran_metadata,
                 pc, exit_error, writing, wpc, written, disk, normvars>>

LoopExit ==
  /\ pc = "loop"
  /\ LoopFinished
  /\ pc' = "write"
  /\ UNCHANGED <<PACKAGES, packages, version, requested, package_list,
                 cran_metadata, package_dicts, exit_error, writing, wpc,
                 written, disk, normvars>>

\* the placeholders of CRAN_META
TemplateFields ==
  {"packagename", "conda_version", "filename", "cranurl", "suggests",
   "depends", "cran_packagename", "home_comment", "homeurl", "license",
   "summary_comment", "summary", "cran_metadata"}

DirOf(package) == package_dicts[package].packagename

\* line 369, for the next package the dict yields; makedirs raises when the
\* directory exists
Makedirs ==
  /\ pc = "write" /\ wpc = "makedirs"
  /\ \E package \in DOMAIN package_dicts \ written :
       IF DirOf(package) \in DOMAIN disk
       THEN /\ Exit("OSError", Some(package))
            /\ UNCHANGED <<disk, writing, wpc>>
       ELSE /\ disk' = DictSet(disk, DirOf(package), {})
            /\ writing' = Some(package)
            /\ wpc' = "meta.yaml"
            /\ UNCHANGED <<pc, exit_error>>
  /\ UNCHANGED <<PACKAGES, packages, version, requested, package_list,
                 cran_metadata, package_dicts, written, normvars>>

WriteFile(name) ==
  disk' = [disk EXCEPT ![DirOf(writing[1])] = @ \cup {name}]

\* lines 371-372: open() creates the file, then the template is filled in
WriteMetaYaml ==
  /\ pc = "write" /\ wpc = "meta.yaml"
  /\ WriteFile("meta.yaml")
  /\ IF TemplateFields \subseteq DOMAIN package_dicts[writing[1]]
     THEN wpc' = "build.sh" /\ UNCHANGED <<pc, exit_error>>
     ELSE Exit("KeyError", writing) /\ UNCHANGED wpc
  /\ UNCHANGED <<PACKAGES, packages, version, requested, package_list,
                 cran_metadata, package_dicts, writing, written, normvars>>

\* lines 373-374
WriteBuildSh ==
  /\ pc = "write" /\ wpc = "build.sh"
  /\ WriteFile("build.sh")
  /\ wpc' = "bld.bat"
  /\ UNCHANGED <<PACKAGES, packages, version, requested, package_list,
                 cran_metadata, package_dicts, pc, exit_error, writing,
                 written, normvars>>

\* lines 375-376
WriteBldBat ==
  /\ pc = "write" /\ wpc = "bld.bat"
  /\ WriteFile("bld.bat")
  /\ wpc' = "makedirs"
  /\ written' = written \cup {writing[1]}
  /\ writing' = None
  /\ UNCHANGED <<PACKAGES, packages, version, requested, package_list,
                 cran_metadata, package_dicts, pc, exit_error, normvars>>

\* "for package in package_dicts" is over
Finish ==
  /\ pc = "write" /\ wpc = "makedirs"
  /\ DOMAIN package_dicts \subseteq written
  /\ pc' = "done"
  /\ UNCHANGED <<PACKAGES, packages, version, requested, package_list,
                 cran_metadata, package_dicts, exit_error, writing, wpc,
                 written, disk, normvars>>

Next ==
  \/ FetchIndex
  \/ BuildIndex
  \/ BuildIndexRaises
  \/ PackageNotFound
  \/ PackageFails
  \/ PackageResolved
  \/ LoopExit
  \/ Makedirs
  \/ WriteMetaYaml
  \/ WriteBuildSh
  \/ WriteBldBat
  \/ Finish

Spec == Init /\ [][Next]_vars

-----------------------------------------------------------------------------
(* Claims about remove_package_line_continuations (checked under SpecNorm)  *)

\* the fold the specification describes: every continuation line is appended,
\* stripped and after one space, to the non-continuation line before it
RECURSIVE FoldedFrom(_, _, _)
FoldedFrom(b, k, acc) ==
  IF k > Len(b) THEN acc
  ELSE IF IsContinuation(b[k]) /\ acc # <<>>
       THEN FoldedFrom(b, k + 1,
              [acc EXCEPT ![Len(acc)] = @ \o <<" ">> \o LStrip(b[k])])
       ELSE FoldedFrom(b, k + 1, Append(acc, b[k]))

Folded(b) == FoldedFrom(b, 1, <<>>)

NumContinuations(b) == Cardinality({k \in 1..Len(b) : IsContinuation(b[k])})

FirstCallReturned == npc = "done" \/ calls = 2

\* C1: for a block whose first line is not a continuation, the call returns
\* the non-continuation lines in order, each followed by the stripped text of
\* the continuation lines after it, joined by one space - also when the
\* continuation lines end the block
C1_FoldsEveryContinuation ==
  (FirstCallReturned /\ block # <<>> /\ ~IsContinuation(block[1]))
    => first_result =
         [k \in 1..Len(Folded(block)) |-> Some(Folded(block)[k])]
           \o <<Some(<<>>)>>

\* C9: a block of L lines, N of them continuations, comes back as L - N lines
\* and one trailing empty-string sentinel
C9_ShrinksByContinuations ==
  FirstCallReturned
    => /\ Len(first_result) = Len(block) - NumContinuations(block) + 1
       /\ first_result[Len(first_result)] = Some(<<>>)

IsBlank(line) == LStrip(line) = <<>>

NoBlankLogicalLine(b) ==
  \A k \in 1..Len(b) : IsContinuation(b[k]) \/ ~IsBlank(b[k])

C10_AccumulatingImpliesSet ==
  /\ norm_error = ""
  /\ accumulating_continuations
       => /\ had_continuation
          /\ continued_ix # None
          /\ continued_line # None

\* the loop is inside a chain: two consecutive continuation lines consumed
C10_Witness ==
  /\ npc = "loop" /\ accumulating_continuations
  /\ i >= 2 /\ chunk[i] = None /\ chunk[i - 1] = None

-----------------------------------------------------------------------------
(* Claims about dict_from_cran_lines and main (checked under Spec)          *)

IndexBuilt == pc \notin {"idle", "fetch", "index"}

\* the error that ended the run while the index was built ("" if none)
IndexError ==
  IF pc = "exit" /\ exit_error.package = None THEN exit_error.kind ELSE ""

HasSeparator(line) == Find(line, KeyValueSep) # 0

\* the non-empty lines of block k of package_list
FieldLines(k) ==
  {n \in 1..Len(package_list[k]) : Truthy(package_list[k][n])}

\* C2: every non-empty line is split at its first ": " only - the key is the
\* text before it, the value all the text after it, also when the value holds
\* ": " - and only a line with no ": " in it is a fatal parse error
C2_SplitsAtFirstSeparator ==
  IndexBuilt =>
    /\ (\A k \in 1..Len(package_list) : \A n \in FieldLines(k) :
          HasSeparator(package_list[k][n][1]))
         => IndexError # "ValueError"
    /\ \A name \in DOMAIN cran_metadata :
         LET d == cran_metadata[name]
         IN \A n \in 1..Len(d.orig_lines) :
              Truthy(d.orig_lines[n]) =>
                LET line == d.orig_lines[n][1]
                    q == Find(line, KeyValueSep)
                    key == SubSeq(line, 1, q - 1)
                IN /\ key \in DOMAIN d.fields
                   /\ \/ d.fields[key] = SubSeq(line, q + 2, Len(line))
                      \/ \E m \in (n + 1)..Len(d.orig_lines) :
                           /\ Truthy(d.orig_lines[m])
                           /\ StartsWith(d.orig_lines[m][1], key \o KeyValueSep)

EndsWithSeparator(text) ==
  Len(text) >= 2 /\ SubSeq(text, Len(text) - 1, Len(text)) = BlockSep

\* what lines 270-273 make of an index text
IndexOutcome(text) ==
  LET pl == PackageList(text)
  IN CranMetadata([k \in 1..Len(pl) |-> pl[k].lines])

\* C3: for an index text that ends with a blank-line separator, main builds
\* the package mapping it builds for the text without that separator, and
\* does not fail because of the empty last block
C3_TrailingEmptyBlockDiscarded ==
  (IndexBuilt /\ EndsWithSeparator(PACKAGES))
    => [error |-> IndexError, metadata |-> cran_metadata]
         = IndexOutcome(SubSeq(PACKAGES, 1, Len(PACKAGES) - 2))

ResolutionErrors ==
  {"PackageNotFound", "NotImplementedError", "KeyError", "CouldNotParse",
   "ArchsNotHandled", "AssertionError"}

\* the packages whose loop iteration ran to its end
ResolvedPackages ==
  {p \in DOMAIN package_dicts :
     ~(pc = "exit" /\ exit_error.package = Some(p)
         /\ exit_error.kind \in ResolutionErrors)}

TokensOf(p) == TokenSet(cran_metadata[Lower(p)])

ParsesWithoutArchs(t) ==
  MatchDependency(t) # None /\ MatchDependency(t)[1].archs = None

NameOf(t) == MatchDependency(t)[1].name
ConstraintOf(t) ==
  OrEmpty(MatchDependency(t)[1].relop) \o OrEmpty(MatchDependency(t)[1].version)

\* the names the block has to list
ListedNames(p) == {NameOf(t) : t \in TokensOf(p)} \ R_BASE_PACKAGE_NAMES

\* the host runtime first, the other names in ascending order
ClaimedOrders(N) ==
  {o \in Orders(N) :
     /\ HostName \in N => o[1] = HostName
     /\ \A a, b \in 1..Len(o) :
          (a < b /\ o[a] # HostName /\ o[b] # HostName) => StrLess(o[a], o[b])}

ClaimedLine(n, constraint) ==
  ItemPrefix
    \o (IF n = HostName THEN <<"r">> ELSE <<"r", "-">> \o Lower(n))
    \o <<" ">> \o constraint

\* C4: the dependency block of a package whose tokens all parse without
\* architecture qualifier has one line per distinct name that is not a base
\* package: R first and unprefixed, the others as "r-" and the lower-cased
\* name, in ascending order of the original names
C4_DependencyBlock ==
  \A p \in ResolvedPackages :
    (\A t \in TokensOf(p) : ParsesWithoutArchs(t)) =>
      \E o \in ClaimedOrders(ListedNames(p)) :
        \E c \in [ListedNames(p) -> {ConstraintOf(t) : t \in TokensOf(p)}] :
          /\ \A n \in ListedNames(p) :
               \E t \in TokensOf(p) : NameOf(t) = n /\ ConstraintOf(t) = c[n]
          /\ package_dicts[p].depends
               = Join([k \in 1..Len(o) |-> ClaimedLine(o[k], c[o[k]])], <<"\n">>)

\* a package is resolved whose tokens name R, a base package and names that
\* differ in case only
C4_Witness ==
  \E p \in ResolvedPackages :
    /\ HostName \in ListedNames(p)
    /\ Cardinality(ListedNames(p)) >= 3
    /\ \E t \in TokensOf(p) : NameOf(t) \in R_BASE_PACKAGE_NAMES
    /\ \E m, n \in ListedNames(p) : m # n /\ Lower(m) = Lower(n)

RecipeFiles == {"meta.yaml", "build.sh", "bld.bat"}

PackageErrors == {"PackageNotFound", "CouldNotParse", "ArchsNotHandled"}

C6_OrderIndependent ==
  \A p \in ResolvedPackages :
    \A order \in Orders(TokensOf(p)) :
      package_dicts[p]
        = Resolve(p, cran_metadata, EmptyDict, version, cran_url, order).d

DirName(p) == <<"r", "-">> \o Lower(p)

\* the conditions under which the claim has the run fail for package p
FatalFor(p) ==
  \/ Lower(p) \notin DOMAIN cran_metadata
  \/ version
  \/ \E t \in TokensOf(p) : ~ParsesWithoutArchs(t)

\* C7: when the run ends with a fatal error for a requested package (unknown
\* name, a token outside the grammar or with an architecture qualifier,
\* version pinning), nothing has been written for that package; a requested
\* package in one of these conditions never has a directory
C7_NothingWrittenForFailedPackage ==
  /\ (pc = "exit"
        /\ exit_error.kind \in PackageErrors \cup {"NotImplementedError"})
       => DirName(exit_error.package[1]) \notin DOMAIN disk
  /\ IndexBuilt =>
       \A k \in 1..Len(requested) :
         FatalFor(requested[k]) => DirName(requested[k]) \notin DOMAIN disk

\* the run ended on an architecture qualifier after another package was
\* resolved
C7_Witness ==
  /\ pc = "exit" /\ exit_error.kind = "ArchsNotHandled"
  /\ ResolvedPackages # {}
  /\ DirName(exit_error.package[1]) \notin DOMAIN disk

====
